---- MODULE Spec2Model ----
(***************************************************************************)
(* jedi/evaluate/compiled/subprocess/__init__.py                           *)
(*                                                                         *)
(* Host side: get_subprocess, EvaluatorSubprocess, _Subprocess._send,      *)
(* _CompiledSubprocess.run / get_sys_path / delete_evaluator, the          *)
(* _ModifiedUnpickler.  Worker side: Listener._run and Listener.listen.    *)
(* The two sides are joined by the child's stdin and stdout pipes.         *)
(***************************************************************************)
EXTENDS Integers, Sequences, FiniteSets, TLC

\* ---------------------------------------------------------------- bounds
NThreads == 2         \* host threads of the multi-threaded specification
MaxOps == 3           \* remote operations (calls, get_sys_path, terminate, kill) of a
                      \* host that uses one catalog function
MaxFewOps == 2        \* remote operations of a host that uses the whole catalog
MaxManyOps == 4       \* remote operations of a host that uses two catalog functions
MaxSessions == 3      \* EvaluatorSubprocess objects constructed by one thread
MaxFewSessions == 2   \* the same in the threaded, the fair and the four-operation runs
MaxCollected == 1     \* evaluators garbage collected before their EvaluatorSubprocess

\* ------------------------------------------------------------- constants
None == 0                          \* Python's None where an id is expected
NoFunction == "None"               \* Python's None where a function is expected
Executables == {"python"}
SessionIds == {1, 2}               \* values id(evaluator) can take
ObjIds == {1, 2}                   \* id(obj) of the worker objects handles stand for
id_None == 3                       \* id(None): what line 157 sends once the evaluator is gone
AllThreads == 1..NThreads
Wrappers == 1..NThreads            \* a _CompiledSubprocess is built per cache miss

\* The function catalog (jedi.evaluate.compiled.subprocess.functions), each
\* function named by what it does when the worker invokes it:
\*   val          returns a plain value
\*   raise        raises an error derived from Exception
\*   exit         raises SystemExit, which is not derived from Exception
\*   unpicklable  raises an error pickle cannot serialize
\*   handle       returns the AccessHandle of worker object 1
\*   handles      returns a list holding the AccessHandle of object 1 twice
\*   get_compiled_method_return
\*                looks the handle of the given id up in the registry of the
\*                session and returns what the method of its object returns
SessionFunctions == {"val", "raise", "exit", "unpicklable", "handle", "handles",
                     "get_compiled_method_return"}

\* What a host calls that uses one function, and two functions, of the catalog.
OneFunction == {"val"}

TwoFunctions == {"val", "handle"}

\* ------------------------------------------------------------- variables
VARIABLES
  threads,        \* host threads that exist
  pc,             \* position of each host thread
  call,           \* the call each host thread is executing
  outcome,        \* how the last call of each host thread ended
  ops,            \* what the host may still do: n remote operations, s sessions
                  \* constructed, g evaluators collected early; fns: the
                  \* catalog functions it calls
  subprocesses,   \* _subprocesses: executable -> wrapper
  nwrap,          \* _CompiledSubprocess objects constructed
  returned,       \* wrappers get_subprocess has returned, per executable
  queue,          \* wrapper._evaluator_deletion_queue
  enqueued,       \* entries ever appended to the wrapper's deletion queue
  spawned,        \* OS processes the wrapper has started (Popen calls)
  proc,           \* "none" | "alive" | "dead"
  stdin,          \* requests written to the child and not yet read by it
  stdout,         \* responses written by the child and not yet read
  exitcode,       \* how the child ended ("" while it has not)
  nreq,           \* requests written to the child's stdin so far
  wpc,            \* Listener.listen: "await" | "dispatch"
  wcur,           \* the request the listener is dispatching
  evaluators,     \* Listener._evaluators: session id -> handle registry (_handles)
  wlog,           \* what the listener read, did and answered, in order
  sessions,       \* the EvaluatorSubprocess objects
  nextInst        \* identity given to the next unpickled AccessHandle

vars == <<threads, pc, call, outcome, ops, subprocesses, nwrap, returned,
          queue, enqueued, spawned, proc, stdin, stdout, exitcode, nreq, wpc, wcur,
          evaluators, wlog, sessions, nextInst>>

cacheVars == <<subprocesses, nwrap, returned>>
pipeVars == <<spawned, proc, stdin, stdout, exitcode, nreq>>
workerVars == <<wpc, wcur, evaluators, wlog>>

\* --------------------------------------------------------------- helpers
EmptyDict == [x \in {} |-> 0]

DictSet(d, k, v) == [x \in (DOMAIN d) \cup {k} |-> IF x = k THEN v ELSE d[x]]

DictDel(d, k) == [x \in (DOMAIN d) \ {k} |-> d[x]]

Front(s) == SubSeq(s, 1, Len(s) - 1)

Last(s) == s[Len(s)]

NoCall == [w |-> 0, s |-> 0, exe |-> "", eid |-> None, fn |-> NoFunction,
           arg |-> 0, from |-> 0, issued |-> 0, tag |-> 0, re |-> 0]

NoOutcome == [kind |-> "none", val |-> "", hs |-> <<>>, fn |-> NoFunction,
              s |-> 0, w |-> 0, tag |-> 0, re |-> 0]

NoRequest == [eid |-> None, fn |-> NoFunction, arg |-> 0, from |-> 0, s |-> 0,
              tag |-> 0, seq |-> 0, enq |-> 0]

NoResponse == [exc |-> FALSE, kind |-> "none", val |-> "", pickled |-> <<>>, re |-> 0]

\* A value a function hands back: a plain value, one AccessHandle ("bare")
\* or a list of AccessHandles; objs are the ids of the objects they stand for.
Plain(v) == [kind |-> "plain", val |-> v, objs |-> <<>>]

Handles(kind, objs) == [kind |-> kind, val |-> "", objs |-> objs]

\* ------------------------------------------------------------ worker side

\* A session's state that forgets what it held.
_get_evaluator_anew(ev, evaluator_id) == DictSet(ev, evaluator_id, EmptyDict)

\* Listener._get_evaluator: the session's state, created when absent.  The
\* state kept here is the handle registry of the session (the _handles of
\* evaluator.compiled_subprocess): id(obj) -> the AccessHandle, which is
\* named by the tag of the request that created it.
_get_evaluator(ev, evaluator_id) ==
  IF evaluator_id \in DOMAIN ev THEN ev ELSE DictSet(ev, evaluator_id, EmptyDict)

\* _EvaluatorProcess.get_or_create_access_handle for object obj: an id
\* already registered keeps its handle (line 50), else one is created and
\* registered (lines 52-54).
get_or_create_access_handle(handles, obj, tag) ==
  IF obj \in DOMAIN handles THEN handles ELSE DictSet(handles, obj, tag)

\* The registry after a function made the handles of objs, in order.
RECURSIVE Registered(_, _, _)
Registered(handles, objs, tag) ==
  IF objs = <<>> THEN handles
  ELSE Registered(get_or_create_access_handle(handles, Head(objs), tag), Tail(objs), tag)

Ran(fun, payload, ev) ==
  [fun |-> fun, raised |-> (fun = "raised"), payload |-> payload, ev |-> ev]

\* What the catalog function of request req does once it is invoked.
Target(req, ev) ==
  LET fn == req.fn
      evaluator_id == req.eid
  IN
  CASE fn = "get_sys_path" -> Ran("returned", Plain("sys_path"), ev)
    [] fn = "val"          -> Ran("returned", Plain("value"), ev)
    [] fn = "raise"        -> Ran("raised", Plain("ValueError"), ev)
    [] fn = "exit"         -> Ran("raised", Plain("SystemExit"), ev)
    [] fn = "unpicklable"  -> Ran("raised", Plain("UnpicklableError"), ev)
    [] fn = "handle"       -> Ran("returned", Handles("bare", <<1>>),
                                   [ev EXCEPT ![evaluator_id] = Registered(@, <<1>>, req.tag)])
    [] fn = "handles"      -> Ran("returned", Handles("list", <<2, 1, 1>>),
                                   [ev EXCEPT ![evaluator_id] = Registered(@, <<2, 1, 1>>, req.tag)])
    [] fn = "get_compiled_method_return" ->
         IF req.arg \in DOMAIN ev[evaluator_id]
         THEN Ran("returned", Plain("value"), ev)
         ELSE Ran("raised", Plain("KeyError"), ev)

\* A request without a session id that is run in a session all the same.
call_in_session(req, ev) == Target(req, _get_evaluator(ev, None))

\* Listener._run, line 192: function(*args, **kwargs), no session involved.
call_global(req, ev) == Target(req, ev)

\* Whether the request carries an AccessHandle argument.  The id that
\* get_compiled_method_return is given is an integer, not an AccessHandle.
HasHandleArg(req) == req.arg # 0 /\ req.fn # "get_compiled_method_return"

\* A lookup that registers the id it does not find.
exchange_handles_creating(handles, id_, tag) ==
  [found |-> TRUE, handles |-> get_or_create_access_handle(handles, id_, tag)]

\* Listener._run, lines 199-205 with get_access_handle (lines 57-58): the
\* handle argument is exchanged for the registered handle of its id; an id
\* that is not registered raises KeyError.
exchange_handles(handles, id_, tag) == [found |-> id_ \in DOMAIN handles, handles |-> handles]

\* Listener._run.  fun tells what the target function did ("none" when it
\* was not invoked); a KeyError of the listener's own lookups is raised too.
_run(ev, req) ==
  IF req.eid = None THEN call_global(req, ev)
  ELSE IF req.fn = NoFunction THEN
    IF req.eid \in DOMAIN ev
    THEN [fun |-> "none", raised |-> FALSE, payload |-> Plain("None"), ev |-> DictDel(ev, req.eid)]
    ELSE [fun |-> "none", raised |-> TRUE, payload |-> Plain("KeyError"), ev |-> ev]
  ELSE LET ev1 == _get_evaluator(ev, req.eid)
           x == exchange_handles(ev1[req.eid], req.arg, req.tag)
           ev2 == [ev1 EXCEPT ![req.eid] = x.handles]
       IN
    IF HasHandleArg(req) /\ ~x.found
    THEN [fun |-> "none", raised |-> TRUE, payload |-> Plain("KeyError"), ev |-> ev1]
    ELSE Target(req, IF HasHandleArg(req) THEN ev2 ELSE ev1)

\* `except Exception` (line 225) catches what derives from Exception.
IsException(e) == e # "SystemExit"

\* Whether pickle.dump can serialize the result tuple.
Picklable(payload) == payload.val # "UnpicklableError"

\* pickle.dump of (is_exception, result), protocol 2.  An AccessHandle is
\* reduced to its id (__getstate__) and rebuilt by a BUILD opcode; an object
\* pickled before is written as a BINGET of the memo slot of its first use.
FirstAt(objs, i) == CHOOSE j \in 1..i : objs[j] = objs[i] /\ \A k \in 1..(j - 1) : objs[k] # objs[i]

pickle_dump(is_exception, payload, tag) ==
  [exc |-> is_exception, kind |-> payload.kind, val |-> payload.val,
   pickled |-> [i \in DOMAIN payload.objs |->
                  IF FirstAt(payload.objs, i) = i
                  THEN [op |-> "BUILD", n |-> payload.objs[i]]
                  ELSE [op |-> "BINGET", n |-> FirstAt(payload.objs, i)]],
   re |-> tag]

\* ------------------------------------------------------------- host side

\* An unpickled AccessHandle: its id, which object it is (inst) and the
\* session add_subprocess bound it to (0: the attribute was never set).
AccessHandle(id, inst, sub) == [id |-> id, inst |-> inst, sub |-> sub]

\* An unpickler that registers the new handle without add_subprocess.
get_access_handle_unbound(handles, h, sub) ==
  IF h.id \in DOMAIN handles
  THEN [handle |-> handles[h.id], handles |-> handles]
  ELSE [handle |-> h, handles |-> DictSet(handles, h.id, h)]

\* _ModifiedUnpickler.get_access_handle: the registered handle of that id,
\* else the new one, bound to the session and registered.
get_access_handle(handles, h, sub) ==
  IF h.id \in DOMAIN handles
  THEN [handle |-> handles[h.id], handles |-> handles]
  ELSE LET bound == AccessHandle(h.id, h.inst, sub) IN
       [handle |-> bound, handles |-> DictSet(handles, h.id, bound)]

\* _ModifiedUnpickler.load over the opcodes from position i on.  st holds the
\* registry, the unpickler's memo, the values built and the next identity.
\* The new object enters the memo before BUILD runs load_build, so the memo
\* keeps the new object also when load_build swaps the stack top.
RECURSIVE load(_, _, _, _)
load(pickled, i, sub, st) ==
  IF i > Len(pickled) THEN st
  ELSE LET o == pickled[i] IN
    IF o.op = "BUILD" THEN
      LET new == AccessHandle(o.n, st.next, 0)
          got == get_access_handle(st.handles, new, sub)
          kept == IF got.handle.inst = new.inst THEN got.handle ELSE new
      IN load(pickled, i + 1, sub,
              [handles |-> got.handles, memo |-> DictSet(st.memo, i, kept),
               stack |-> Append(st.stack, got.handle), next |-> st.next + 1])
    ELSE load(pickled, i + 1, sub, [st EXCEPT !.stack = Append(@, st.memo[o.n])])

_ModifiedUnpickler(sub, handles, pickled, next) ==
  load(pickled, 1, sub, [handles |-> handles, memo |-> EmptyDict, stack |-> <<>>, next |-> next])

\* deque.popleft() in the place of deque.pop().
deque_popleft(q) == [item |-> Head(q), rest |-> Tail(q)]

\* deque.pop() of run(): the entry taken and the entries left.
deque_pop(q) == [item |-> Last(q), rest |-> Front(q)]

\* delete_evaluator: deque.append.  seq numbers the appends of the wrapper.
delete_evaluator(q, evaluator_id, seq) == Append(q, [id |-> evaluator_id, seq |-> seq])

\* A finalizer that does not look at _used.
del_deletes_always(session) == TRUE

\* EvaluatorSubprocess.__del__: whether it calls delete_evaluator.
del_deletes(session) == session.used

\* ------------------------------------------------------------------ Init
InitCommon ==
  /\ pc = [t \in AllThreads |-> "idle"]
  /\ call = [t \in AllThreads |-> NoCall]
  /\ outcome = [t \in AllThreads |-> NoOutcome]
  /\ subprocesses = EmptyDict
  /\ nwrap = 0
  /\ returned = [e \in Executables |-> {}]
  /\ queue = [w \in Wrappers |-> <<>>]
  /\ enqueued = [w \in Wrappers |-> 0]
  /\ spawned = [w \in Wrappers |-> 0]
  /\ proc = [w \in Wrappers |-> "none"]
  /\ stdin = [w \in Wrappers |-> <<>>]
  /\ stdout = [w \in Wrappers |-> <<>>]
  /\ exitcode = [w \in Wrappers |-> ""]
  /\ nreq = [w \in Wrappers |-> 0]
  /\ wpc = [w \in Wrappers |-> "await"]
  /\ wcur = [w \in Wrappers |-> NoRequest]
  /\ evaluators = [w \in Wrappers |-> EmptyDict]
  /\ wlog = [w \in Wrappers |-> <<>>]
  /\ sessions = <<>>
  /\ nextInst = 1

\* What the host is going to do at most.
Budget(n, s, fns) == [n |-> n, s |-> s, g |-> MaxCollected, fns |-> fns]

\* One host thread uses the module and the whole catalog.
Init == threads = {1} /\ ops = Budget(MaxFewOps, MaxSessions, SessionFunctions) /\ InitCommon

\* One host thread, for the specification with fairness.
InitFair ==
  threads = {1} /\ ops = Budget(MaxFewOps, MaxFewSessions, SessionFunctions) /\ InitCommon

\* Several host threads use the module.
InitThreads ==
  threads = AllThreads /\ ops = Budget(MaxFewOps, MaxFewSessions, OneFunction) /\ InitCommon

\* One host thread, more operations with one function.
InitFlush == threads = {1} /\ ops = Budget(MaxOps, MaxSessions, OneFunction) /\ InitCommon

\* One host thread, still more operations with two functions.
InitMany == threads = {1} /\ ops = Budget(MaxManyOps, MaxFewSessions, TwoFunctions) /\ InitCommon

\* ------------------------------------------------------ get_subprocess
\* Lines 30-31: the lookup.  A hit returns the cached wrapper; a miss
\* (KeyError) leaves the thread before the construction of line 33.
get_subprocess(t, executable) ==
  /\ t \in threads /\ pc[t] = "idle"
  /\ IF executable \in DOMAIN subprocesses
     THEN /\ returned' = [returned EXCEPT ![executable] = @ \cup {subprocesses[executable]}]
          /\ UNCHANGED <<pc, call>>
     ELSE /\ pc' = [pc EXCEPT ![t] = "miss"]
          /\ call' = [call EXCEPT ![t] = [NoCall EXCEPT !.exe = executable]]
          /\ UNCHANGED returned
  /\ UNCHANGED <<threads, outcome, ops, subprocesses, nwrap, queue, enqueued,
                 pipeVars, workerVars, sessions, nextInst>>

\* Line 33: construct the wrapper (its empty deletion queue, line 144),
\* store it in the cache and return it.
get_subprocess_store(t) ==
  /\ t \in threads /\ pc[t] = "miss"
  /\ nwrap' = nwrap + 1
  /\ subprocesses' = DictSet(subprocesses, call[t].exe, nwrap + 1)
  /\ returned' = [returned EXCEPT ![call[t].exe] = @ \cup {nwrap + 1}]
  /\ pc' = [pc EXCEPT ![t] = "idle"]
  /\ call' = [call EXCEPT ![t] = NoCall]
  /\ UNCHANGED <<threads, outcome, ops, queue, enqueued, pipeVars, workerVars,
                 sessions, nextInst>>

\* ------------------------------------------------- EvaluatorSubprocess
\* id(evaluator): an identity no live evaluator has (the session holds its
\* evaluator by a weak reference only, line 43).  Identities are
\* interchangeable, so a new one is taken in order: the least never used.
UsedIds == {sessions[s].sid : s \in DOMAIN sessions}

FreeIds ==
  {i \in SessionIds :
     /\ \A s \in DOMAIN sessions : sessions[s].evaluator => sessions[s].sid # i
     /\ \A j \in SessionIds : j < i => j \in UsedIds}

\* EvaluatorSubprocess.__init__ (lines 75-78 and 42-45), run by an idle
\* thread on a wrapper that get_subprocess returned.  called and enq record
\* the session's history: whether it issued a remote call, and the queue
\* entry made for it.
EvaluatorSubprocess(t, w, evaluator_id) ==
  /\ t \in threads /\ pc[t] = "idle"
  /\ w \in 1..nwrap
  /\ ops.s > 0
  /\ evaluator_id \in FreeIds
  /\ sessions' = Append(sessions, [sid |-> evaluator_id, used |-> FALSE, alive |-> TRUE,
                                   evaluator |-> TRUE, w |-> w, handles |-> EmptyDict,
                                   called |-> FALSE, enq |-> 0])
  /\ ops' = [ops EXCEPT !.s = @ - 1]
  /\ UNCHANGED <<threads, pc, call, outcome, cacheVars, queue, enqueued,
                 pipeVars, workerVars, nextInst>>

\* The evaluator is garbage collected while its EvaluatorSubprocess is still
\* referenced (by a handle, say): _evaluator_weakref() is None from now on
\* and the identity is free for another object.
evaluator_collected(s) ==
  /\ s \in DOMAIN sessions
  /\ sessions[s].alive /\ sessions[s].evaluator
  /\ threads # {} /\ ops.g > 0
  /\ \A t \in threads : call[t].s # s
  /\ sessions' = [sessions EXCEPT ![s].evaluator = FALSE]
  /\ ops' = [ops EXCEPT !.g = @ - 1]
  /\ UNCHANGED <<threads, pc, call, outcome, cacheVars, queue, enqueued, pipeVars,
                 workerVars, nextInst>>

\* EvaluatorSubprocess.__del__ (lines 100-102).  The finalizer runs when the
\* object is garbage, at any moment, but not while a call of it, or a call
\* given one of its handles, is running.  An evaluator that was alive till
\* now goes with its session.
__del__(s) ==
  /\ s \in DOMAIN sessions
  /\ sessions[s].alive
  /\ threads # {}
  /\ \A t \in threads : call[t].s # s /\ call[t].from # s
  /\ LET w == sessions[s].w IN
     IF del_deletes(sessions[s])
     THEN /\ queue' = [queue EXCEPT ![w] = delete_evaluator(@, sessions[s].sid, enqueued[w] + 1)]
          /\ enqueued' = [enqueued EXCEPT ![w] = @ + 1]
          /\ sessions' = [sessions EXCEPT ![s].alive = FALSE, ![s].evaluator = FALSE,
                                          ![s].enq = enqueued[w] + 1]
     ELSE /\ sessions' = [sessions EXCEPT ![s].alive = FALSE, ![s].evaluator = FALSE]
          /\ UNCHANGED <<queue, enqueued>>
  /\ UNCHANGED <<threads, pc, call, outcome, ops, cacheVars, pipeVars, workerVars, nextInst>>

\* ---------------------------------------------------------- _Subprocess
Ended(c, kind, val, hs, re) ==
  [kind |-> kind, val |-> val, hs |-> hs, fn |-> c.fn, s |-> c.s, w |-> c.w,
   tag |-> c.tag, re |-> re]

\* The child process is gone: its stdin has no reader and its memory is
\* lost.  What it had flushed to stdout stays readable.
ProcessEnds(w, how) ==
  /\ proc' = [proc EXCEPT ![w] = "dead"]
  /\ exitcode' = [exitcode EXCEPT ![w] = IF proc[w] = "dead" THEN @ ELSE how]
  /\ stdin' = [stdin EXCEPT ![w] = <<>>]
  /\ wpc' = [wpc EXCEPT ![w] = "await"]
  /\ wcur' = [wcur EXCEPT ![w] = NoRequest]
  /\ evaluators' = [evaluators EXCEPT ![w] = EmptyDict]

\* _Subprocess._process (lines 109-117): Popen on the first access only.
_process(w) ==
  spawned' = [spawned EXCEPT ![w] = IF proc[w] = "none" THEN @ + 1 ELSE @]

\* _send, lines 120-122, for thread t running call c: pickle.dump of the
\* request to the child's stdin and flush.  With the child gone the write
\* fails (BrokenPipeError), which ends the call, or, the signal of
\* terminate()/kill() still being on its way, the bytes go into a pipe nobody
\* will read.  tag numbers the requests written.
_send_write(t, c, req, reading) ==
  LET w == c.w IN
  /\ _process(w)
  /\ \/ /\ proc[w] = "dead"
        /\ pc' = [pc EXCEPT ![t] = "idle"]
        /\ call' = [call EXCEPT ![t] = NoCall]
        /\ outcome' = [outcome EXCEPT ![t] = Ended(c, "transport", "BrokenPipeError", <<>>, 0)]
        /\ UNCHANGED <<proc, stdin, nreq, exitcode>>
     \/ /\ UNCHANGED exitcode
        /\ proc' = [proc EXCEPT ![w] = IF @ = "none" THEN "alive" ELSE @]
        /\ stdin' = [stdin EXCEPT ![w] = IF proc[w] = "dead" THEN @
                                         ELSE Append(@, [req EXCEPT !.tag = nreq[w] + 1])]
        /\ nreq' = [nreq EXCEPT ![w] = @ + 1]
        /\ pc' = [pc EXCEPT ![t] = reading]
        /\ call' = [call EXCEPT ![t] = [c EXCEPT !.tag = nreq[w] + 1, !.re = 0]]
        /\ outcome' = [outcome EXCEPT ![t] = NoOutcome]

\* A read that returns only when data arrives.
CanRead_data_only(w) == stdout[w] # <<>>

\* Whether the blocking read of line 123 can return: a response is there,
\* or the stream is at end-of-file because the child is gone.
CanRead(w) == stdout[w] # <<>> \/ proc[w] = "dead"

\* The result as the wrapper of lines 93-96 returns it: add_subprocess on a
\* result that is itself an AccessHandle.
add_subprocess(kind, hs, s) ==
  IF kind = "bare" THEN [i \in DOMAIN hs |-> [hs[i] EXCEPT !.sub = s]] ELSE hs

\* _send, lines 123-126: read one response and raise or return it.  A
\* session call decodes with the _ModifiedUnpickler of its session (line 91),
\* the other calls with pickle.load.  A destroy message that was answered
\* without error returns into the loop of run().
_send_read(t) ==
  LET c == call[t]
      w == c.w
  IN
  /\ t \in threads /\ pc[t] \in {"flush_read", "call_read"}
  /\ CanRead(w)
  /\ IF stdout[w] = <<>>
     THEN /\ pc' = [pc EXCEPT ![t] = "idle"]
          /\ call' = [call EXCEPT ![t] = NoCall]
          /\ outcome' = [outcome EXCEPT ![t] = Ended(c, "transport", "EOFError", <<>>, 0)]
          /\ UNCHANGED <<stdout, sessions, nextInst>>
     ELSE LET resp == Head(stdout[w])
              session_call == pc[t] = "call_read" /\ c.s # 0
              st == IF session_call
                    THEN _ModifiedUnpickler(c.s, sessions[c.s].handles, resp.pickled, nextInst)
                    ELSE [handles |-> EmptyDict, memo |-> EmptyDict, stack |-> <<>>, next |-> nextInst]
          IN
          /\ stdout' = [stdout EXCEPT ![w] = Tail(@)]
          /\ nextInst' = st.next
          /\ sessions' = IF session_call THEN [sessions EXCEPT ![c.s].handles = st.handles]
                         ELSE sessions
          /\ IF resp.exc
             THEN /\ pc' = [pc EXCEPT ![t] = "idle"]
                  /\ call' = [call EXCEPT ![t] = NoCall]
                  /\ outcome' = [outcome EXCEPT ![t] = Ended(c, "raise", resp.val, <<>>, resp.re)]
             ELSE IF pc[t] = "flush_read"
             THEN /\ pc' = [pc EXCEPT ![t] = "run"]
                  /\ call' = [call EXCEPT ![t].re = resp.re]
                  /\ UNCHANGED outcome
             ELSE /\ pc' = [pc EXCEPT ![t] = "idle"]
                  /\ call' = [call EXCEPT ![t] = NoCall]
                  /\ outcome' = [outcome EXCEPT ![t] =
                       Ended(c, "return", resp.val, add_subprocess(resp.kind, st.stack, c.s), resp.re)]
  /\ UNCHANGED <<threads, ops, cacheVars, queue, enqueued, spawned, proc, stdin, exitcode,
                 nreq, workerVars>>

\* terminate() (lines 128-129): signals the child, started if need be.
terminate(t, w) ==
  /\ t \in threads /\ pc[t] = "idle" /\ ops.n > 0
  /\ w \in 1..nwrap
  /\ _process(w)
  /\ ProcessEnds(w, "SIGTERM")
  /\ ops' = [ops EXCEPT !.n = @ - 1]
  /\ UNCHANGED <<threads, pc, call, outcome, cacheVars, queue, enqueued, stdout, nreq,
                 wlog, sessions, nextInst>>

\* kill() (lines 131-132).
kill(t, w) ==
  /\ t \in threads /\ pc[t] = "idle" /\ ops.n > 0
  /\ w \in 1..nwrap
  /\ _process(w)
  /\ ProcessEnds(w, "SIGKILL")
  /\ ops' = [ops EXCEPT !.n = @ - 1]
  /\ UNCHANGED <<threads, pc, call, outcome, cacheVars, queue, enqueued, stdout, nreq,
                 wlog, sessions, nextInst>>

\* -------------------------------------------------- _CompiledSubprocess
\* The handles the host can pass as an argument: those it was given and
\* still holds, as pairs of the session that decoded the handle and its id.
\* A handle refers to its session, so it is held only while the session lives.
HeldIds ==
  {p \in (DOMAIN sessions) \X ObjIds :
     sessions[p[1]].alive /\ p[2] \in DOMAIN sessions[p[1]].handles}

\* The argument of a call of fn on session s: id and session of a handle, or
\* <<0, 0>> for none.  Of the catalog val takes any handle the host holds,
\* which pickles to its id.  get_compiled_method_return is what
\* AccessHandle.__getattr__ (lines 276-277) calls on the session the handle
\* is bound to, with the id of the handle.
Arguments(s, fn) ==
  CASE fn = "val" -> {<<0, 0>>} \cup HeldIds
    [] fn = "get_compiled_method_return" ->
         {p \in HeldIds : sessions[p[1]].handles[p[2]].sub = s}
    [] OTHER -> {<<0, 0>>}

\* id(evaluator) as run() is given it (lines 87 and 157): the evaluator is
\* what the weak reference yields at the moment of the call.
id_evaluator(session) == IF session.evaluator THEN session.sid ELSE id_None

\* EvaluatorSubprocess.__getattr__'s wrapper, lines 84-86: mark the session
\* used and enter run().  issued counts the queue entries made so far.
wrapper(t, s, fn, arg, from) ==
  /\ t \in threads /\ pc[t] = "idle" /\ ops.n > 0
  /\ s \in DOMAIN sessions /\ sessions[s].alive
  /\ fn \in ops.fns
  /\ <<from, arg>> \in Arguments(s, fn)
  /\ sessions' = [sessions EXCEPT ![s].used = TRUE, ![s].called = TRUE]
  /\ call' = [call EXCEPT ![t] = [NoCall EXCEPT !.w = sessions[s].w, !.s = s,
                                    !.eid = id_evaluator(sessions[s]), !.fn = fn,
                                    !.arg = arg, !.from = from,
                                    !.issued = enqueued[sessions[s].w]]]
  /\ pc' = [pc EXCEPT ![t] = "run"]
  /\ outcome' = [outcome EXCEPT ![t] = NoOutcome]
  /\ ops' = [ops EXCEPT !.n = @ - 1]
  /\ UNCHANGED <<threads, cacheVars, queue, enqueued, pipeVars, workerVars, nextInst>>

\* run() (lines 148-157), one turn of the loop: pop an entry and send its
\* destroy message, or, the queue being empty, send the call's request.
\* seq and enq of a request tell which queue entry it destroys and how many
\* entries had been made when it was popped (for the call: when it was issued).
run(t) ==
  LET c == call[t]
      w == c.w
  IN
  /\ t \in threads /\ pc[t] = "run"
  /\ IF queue[w] # <<>>
     THEN LET e == deque_pop(queue[w]) IN
          /\ queue' = [queue EXCEPT ![w] = e.rest]
          /\ _send_write(t, c, [NoRequest EXCEPT !.eid = e.item.id, !.seq = e.item.seq,
                                                  !.enq = enqueued[w]], "flush_read")
     ELSE /\ UNCHANGED queue
          /\ _send_write(t, c, [NoRequest EXCEPT !.eid = c.eid, !.fn = c.fn, !.arg = c.arg,
                                                  !.from = c.from, !.s = c.s,
                                                  !.enq = c.issued], "call_read")
  /\ UNCHANGED <<threads, ops, cacheVars, enqueued, stdout, workerVars, sessions, nextInst>>

\* get_sys_path() (lines 159-160): _send with no session id.
get_sys_path(t, w) ==
  /\ t \in threads /\ pc[t] = "idle" /\ ops.n > 0
  /\ w \in 1..nwrap
  /\ _send_write(t, [NoCall EXCEPT !.w = w, !.fn = "get_sys_path", !.issued = enqueued[w]],
                 [NoRequest EXCEPT !.fn = "get_sys_path", !.enq = enqueued[w]], "call_read")
  /\ ops' = [ops EXCEPT !.n = @ - 1]
  /\ UNCHANGED <<threads, cacheVars, queue, enqueued, stdout, workerVars, sessions, nextInst>>

\* The host process ends, its calls having returned: the write ends of the
\* children's stdin pipes are closed with it, and it does nothing more.
host_exits ==
  /\ threads # {}
  /\ \A t \in threads : pc[t] = "idle"
  /\ threads' = {}
  /\ ops' = [n |-> 0, s |-> 0, g |-> 0, fns |-> {}]
  /\ UNCHANGED <<pc, call, outcome, cacheVars, queue, enqueued, pipeVars, workerVars,
                 sessions, nextInst>>

\* -------------------------------------------------------------- Listener
\* listen(), line 218: pickle.load of the next request.
listen_read(w) ==
  /\ proc[w] = "alive" /\ wpc[w] = "await"
  /\ stdin[w] # <<>>
  /\ wcur' = [wcur EXCEPT ![w] = Head(stdin[w])]
  /\ stdin' = [stdin EXCEPT ![w] = Tail(@)]
  /\ wpc' = [wpc EXCEPT ![w] = "dispatch"]
  /\ wlog' = [wlog EXCEPT ![w] = Append(@, [req |-> Head(stdin[w]), fun |-> "none",
                                            val |-> "", resp |-> NoResponse,
                                            before |-> evaluators[w],
                                            after |-> evaluators[w]])]
  /\ UNCHANGED <<threads, pc, call, outcome, ops, cacheVars, queue, enqueued, spawned,
                 proc, stdout, exitcode, nreq, evaluators, sessions, nextInst>>

\* listen(), lines 219-222: pickle.load meets end-of-input, the parent being
\* gone, and the process exits with status 1.  Nothing is written.
listen_eof(w) ==
  /\ proc[w] = "alive" /\ wpc[w] = "await"
  /\ stdin[w] = <<>> /\ threads = {}
  /\ ProcessEnds(w, "exit(1)")
  /\ UNCHANGED <<threads, pc, call, outcome, ops, cacheVars, queue, enqueued, spawned,
                 stdout, nreq, wlog, sessions, nextInst>>

\* Whether listen() gets to write a response: the error, if any, is caught
\* by `except Exception` and pickle.dump of the result succeeds.
Answers(r) == (r.raised => IsException(r.payload.val)) /\ Picklable(r.payload)

\* A listener that owes no response to a destroy message.
listen_responses_but_destroy(req, r) ==
  IF req.fn = NoFunction THEN <<>> ELSE <<pickle_dump(r.raised, r.payload, req.tag)>>

\* listen(), lines 228-229: what is dumped and flushed for a request, the
\* same for calls and for destroy messages.
listen_responses(req, r) == <<pickle_dump(r.raised, r.payload, req.tag)>>

\* listen(), lines 223-229: _run under try/except, then dump and flush the
\* result.  An error that escapes ends the process without a response.
listen_dispatch(w) ==
  /\ proc[w] = "alive" /\ wpc[w] = "dispatch"
  /\ LET r == _run(evaluators[w], wcur[w])
         resps == listen_responses(wcur[w], r)
         resp == IF resps = <<>> THEN NoResponse ELSE resps[1]
     IN
     IF Answers(r)
     THEN /\ stdout' = [stdout EXCEPT ![w] = @ \o resps]
          /\ evaluators' = [evaluators EXCEPT ![w] = r.ev]
          /\ wpc' = [wpc EXCEPT ![w] = "await"]
          /\ wcur' = [wcur EXCEPT ![w] = NoRequest]
          /\ wlog' = [wlog EXCEPT ![w][Len(wlog[w])] =
                        [@ EXCEPT !.fun = r.fun, !.val = r.payload.val, !.resp = resp,
                                  !.after = r.ev]]
          /\ UNCHANGED <<proc, stdin, exitcode>>
     ELSE /\ ProcessEnds(w, "uncaught")
          /\ wlog' = [wlog EXCEPT ![w][Len(wlog[w])] =
                        [@ EXCEPT !.fun = r.fun, !.val = r.payload.val]]
          /\ UNCHANGED stdout
  /\ UNCHANGED <<threads, pc, call, outcome, ops, cacheVars, queue, enqueued, spawned,
                 nreq, sessions, nextInst>>

\* ------------------------------------------------------------------ Next
Next ==
  \/ \E t \in AllThreads, e \in Executables : get_subprocess(t, e)
  \/ \E t \in AllThreads : get_subprocess_store(t)
  \/ \E t \in AllThreads, w \in Wrappers, i \in SessionIds : EvaluatorSubprocess(t, w, i)
  \/ \E s \in 1..MaxSessions : evaluator_collected(s)
  \/ \E s \in 1..MaxSessions : __del__(s)
  \/ \E t \in AllThreads, s \in 1..MaxSessions, fn \in SessionFunctions :
       \E a \in {0} \cup ObjIds, from \in 0..MaxSessions : wrapper(t, s, fn, a, from)
  \/ \E t \in AllThreads : run(t)
  \/ \E t \in AllThreads : _send_read(t)
  \/ \E t \in AllThreads, w \in Wrappers : get_sys_path(t, w)
  \/ \E t \in AllThreads, w \in Wrappers : terminate(t, w)
  \/ \E t \in AllThreads, w \in Wrappers : kill(t, w)
  \/ host_exits
  \/ \E w \in Wrappers : listen_read(w)
  \/ \E w \in Wrappers : listen_eof(w)
  \/ \E w \in Wrappers : listen_dispatch(w)

Spec == Init /\ [][Next]_vars

SpecThreads == InitThreads /\ [][Next]_vars

SpecFlush == InitFlush /\ [][Next]_vars

SpecMany == InitMany /\ [][Next]_vars

\* A thread inside a call takes its next step when it can (a write does not
\* block; a read returns once CanRead), and the child process runs.
Fairness ==
  /\ \A t \in AllThreads : WF_vars(run(t)) /\ WF_vars(_send_read(t))
  /\ \A w \in Wrappers : WF_vars(listen_read(w)) /\ WF_vars(listen_dispatch(w))

FairSpec == InitFair /\ [][Next]_vars /\ Fairness

\* ================================================================ claims

IsDestroy(e) == e.req.fn = NoFunction

\* The destroy message of queue entry n is among the first k - 1 requests
\* the worker of w read.
DestroyedBefore(w, n, k) ==
  \E j \in 1..(k - 1) : IsDestroy(wlog[w][j]) /\ wlog[w][j].req.seq = n

\* C1: a session id enqueued on the deletion queue before a real call
\* (through run(), or session-less like get_sys_path()) was issued is
\* destroyed on the worker before the worker receives that call's request.
C1_DeletionBeforeCall ==
  \A w \in Wrappers : \A k \in DOMAIN wlog[w] :
    ~IsDestroy(wlog[w][k]) =>
      \A n \in 1..wlog[w][k].req.enq : DestroyedBefore(w, n, k)

\* The same for the calls that go through run() only.
DeletionBeforeRun ==
  \A w \in Wrappers : \A k \in DOMAIN wlog[w] :
    (~IsDestroy(wlog[w][k]) /\ wlog[w][k].req.eid # None) =>
      \A n \in 1..wlog[w][k].req.enq : DestroyedBefore(w, n, k)

\* The worker of w read the destroy messages of two queue entries, the one
\* at position i first, and both entries were in the queue when the first
\* of them was popped.
BothPending(w, i, j) ==
  /\ i \in DOMAIN wlog[w] /\ j \in DOMAIN wlog[w] /\ i < j
  /\ IsDestroy(wlog[w][i]) /\ IsDestroy(wlog[w][j])
  /\ wlog[w][j].req.seq <= wlog[w][i].req.enq

\* C2 as stated: the flush sends the destroy messages in FIFO order, so of
\* two pending entries the worker receives the earlier enqueued one first.
C2_FlushIsFifo ==
  \A w \in Wrappers : \A i, j \in DOMAIN wlog[w] :
    BothPending(w, i, j) => wlog[w][i].req.seq < wlog[w][j].req.seq

\* C2 amended: the flush sends the destroy messages in LIFO order, so of two
\* pending entries the worker receives the later enqueued one first.
C2_FlushIsLifo ==
  \A w \in Wrappers : \A i, j \in DOMAIN wlog[w] :
    BothPending(w, i, j) => wlog[w][i].req.seq > wlog[w][j].req.seq

\* Two entries were pending together and the worker has read both messages.
C2_Witness ==
  \E w \in Wrappers : \E i, j \in DOMAIN wlog[w] : BothPending(w, i, j)

\* C3: on teardown the session id is enqueued if and only if the session
\* issued a remote call; every queue entry, and so every destroy message the
\* worker reads, belongs to a torn-down session that issued one.
C3_TeardownEnqueuesIffUsed ==
  /\ \A s \in DOMAIN sessions :
       IF sessions[s].alive THEN sessions[s].enq = 0
       ELSE (sessions[s].enq # 0) <=> sessions[s].called
  /\ \A w \in Wrappers :
       /\ enqueued[w] = Cardinality({s \in DOMAIN sessions :
                           sessions[s].w = w /\ ~sessions[s].alive /\ sessions[s].called})
       /\ \A k \in DOMAIN wlog[w] : IsDestroy(wlog[w][k]) =>
            \E s \in DOMAIN sessions :
              /\ sessions[s].w = w /\ sessions[s].called /\ ~sessions[s].alive
              /\ sessions[s].enq = wlog[w][k].req.seq
              /\ sessions[s].sid = wlog[w][k].req.eid

\* A session was torn down unused, another after a call, and the worker has
\* read the destroy message of the latter.
C3_Witness ==
  /\ \E s \in DOMAIN sessions : ~sessions[s].alive /\ ~sessions[s].called
  /\ \E s \in DOMAIN sessions : ~sessions[s].alive /\ sessions[s].called
       /\ \E k \in DOMAIN wlog[sessions[s].w] :
            /\ IsDestroy(wlog[sessions[s].w][k])
            /\ wlog[sessions[s].w][k].req.seq = sessions[s].enq

\* C4: a request whose target function raised is answered with a failing
\* response (the listener is then back at await-request); it never ends the
\* dispatch loop.
C4_RaisingTargetIsAnswered ==
  \A w \in Wrappers : \A k \in DOMAIN wlog[w] :
    wlog[w][k].fun = "raised" =>
      wlog[w][k].resp.exc /\ wlog[w][k].resp.val = wlog[w][k].val

\* The same for the errors that derive from Exception and can be pickled.
RaisedExceptionIsAnswered ==
  \A w \in Wrappers : \A k \in DOMAIN wlog[w] :
    (wlog[w][k].fun = "raised" /\ IsException(wlog[w][k].val)
       /\ Picklable(Plain(wlog[w][k].val))) =>
      wlog[w][k].resp.exc /\ wlog[w][k].resp.val = wlog[w][k].val

\* The log entry of the request a finished call wrote last.
EntryOf(o) == wlog[o.w][CHOOSE k \in DOMAIN wlog[o.w] : wlog[o.w][k].req.tag = o.tag]

Dispatched(o) ==
  /\ o.kind # "none" /\ o.tag # 0
  /\ \E k \in DOMAIN wlog[o.w] : wlog[o.w][k].req.tag = o.tag

\* C5: when the target function raised e the worker answered (true, e) and
\* the call raises e; when it returned v the worker answered (false, v) and
\* the call returns v.
C5_CallEndsAsTargetDid ==
  \A t \in threads :
    Dispatched(outcome[t]) =>
      LET e == EntryOf(outcome[t]) IN
      /\ e.fun = "raised" =>
           /\ e.resp.exc /\ e.resp.val = e.val
           /\ outcome[t].kind = "raise" /\ outcome[t].val = e.val
      /\ e.fun = "returned" =>
           /\ ~e.resp.exc /\ e.resp.val = e.val /\ e.resp.kind # "none"
           /\ outcome[t].kind = "return" /\ outcome[t].val = e.val

\* C6: for an executable, get_subprocess returns one wrapper only and one
\* OS process at most is ever started, whatever the threads do.
C6_OneWorkerPerExecutable ==
  \A e \in Executables :
    /\ Cardinality(returned[e]) <= 1
    /\ Cardinality({w \in returned[e] : spawned[w] > 0}) <= 1
    /\ \A w \in returned[e] : spawned[w] <= 1

\* The threads of a wrapper that wrote a request and have not read its response.
Awaiting(w) == {t \in threads : pc[t] \in {"flush_read", "call_read"} /\ call[t].w = w}

\* C7: calls of several threads on one worker are serialized: one request
\* at most is in flight, and a thread reads the response to its own request.
C7_CallsAreSerialized ==
  /\ \A w \in Wrappers : Cardinality(Awaiting(w)) <= 1
  /\ \A t \in threads : outcome[t].kind \in {"return", "raise"} => outcome[t].re = outcome[t].tag

Answered(w) == {k \in DOMAIN wlog[w] : wlog[w][k].resp # NoResponse}

C9_DecodeYieldsRegistered ==
  \A t \in threads :
    (outcome[t].kind = "return" /\ outcome[t].s # 0) =>
      \A i \in DOMAIN outcome[t].hs :
        LET h == outcome[t].hs[i]
            registry == sessions[outcome[t].s].handles
        IN h.id \in DOMAIN registry /\ registry[h.id].inst = h.inst

InCall(t) == pc[t] \in {"run", "flush_read", "call_read"}

\* C10: once the worker process is gone, a call in flight on it, or issued
\* on it afterwards, ends with a transport failure raised to the caller; the
\* caller does not stay blocked.
C10_GoneWorkerFailsCalls ==
  \A t \in AllThreads :
    (InCall(t) /\ proc[call[t].w] = "dead")
      ~> (pc[t] = "idle" /\ outcome[t].kind = "transport")

\* The worker ended while it dispatched the request of a call, and the
\* call was failed with EOFError.
C10_Witness ==
  \E t \in threads :
    /\ outcome[t].kind = "transport" /\ outcome[t].val = "EOFError"
    /\ Dispatched(outcome[t])

\* The worker of w finished the dispatch of the request at position k.
Done(w, k) == wlog[w][k].fun # "none" \/ wlog[w][k].val # ""

\* The request at k was a call of host session s that the worker answered
\* with a value holding the handle of object i.
Issued(w, k, s, i) ==
  /\ wlog[w][k].req.s = s /\ wlog[w][k].fun = "returned"
  /\ wlog[w][k].resp # NoResponse
  /\ \E n \in DOMAIN wlog[w][k].resp.pickled :
       wlog[w][k].resp.pickled[n] = [op |-> "BUILD", n |-> i]

\* The request at k is a method call forwarded through the handle of object
\* i that session s holds, dispatched by the worker.
Forwarded(w, k, s, i) ==
  /\ wlog[w][k].req.fn = "get_compiled_method_return" /\ Done(w, k)
  /\ wlog[w][k].req.s = s /\ wlog[w][k].req.arg = i

\* The worker read a destroy message for session id e between j and k.
DestroyedBetween(w, e, j, k) ==
  \E d \in (j + 1)..(k - 1) : IsDestroy(wlog[w][d]) /\ wlog[w][d].req.eid = e

\* The handle the forwarded call at k was resolved to is the one registered
\* when the call at j returned it.
ResolvedAsIssued(w, j, k, i) ==
  LET e == wlog[w][j].req.eid IN
  /\ wlog[w][k].req.eid = e
  /\ wlog[w][k].fun = "returned"
  /\ e \in DOMAIN wlog[w][k].before /\ i \in DOMAIN wlog[w][k].before[e]
  /\ wlog[w][k].before[e][i] = wlog[w][j].after[e][i]

\* A call keeps the handle of every object its session had registered.
KeepsRegistered(w, k) ==
  LET e == wlog[w][k].req.eid IN
  (~IsDestroy(wlog[w][k]) /\ Done(w, k) /\ e \in DOMAIN wlog[w][k].before) =>
    \A i \in DOMAIN wlog[w][k].before[e] :
      /\ e \in DOMAIN wlog[w][k].after /\ i \in DOMAIN wlog[w][k].after[e]
      /\ wlog[w][k].after[e][i] = wlog[w][k].before[e][i]

\* C11: when a call of session S returned a handle of object X, a later
\* method call forwarded through that handle, S's id not having been
\* destroyed in between, is resolved by the worker through S's registry to
\* the handle registered for X when it was first returned; and
\* get_or_create_access_handle makes no second handle for a registered id.
C11_HandleRoundTrip ==
  \A w \in Wrappers :
    /\ \A j, k \in DOMAIN wlog[w] : \A s \in DOMAIN sessions : \A i \in ObjIds :
         (/\ j < k /\ Issued(w, j, s, i) /\ Forwarded(w, k, s, i)
          /\ ~DestroyedBetween(w, sessions[s].sid, j, k)
          /\ ~DestroyedBetween(w, wlog[w][j].req.eid, j, k))
           => ResolvedAsIssued(w, j, k, i)
    /\ \A k \in DOMAIN wlog[w] : KeepsRegistered(w, k)

\* The same for the forwarded calls that reach the worker under the id the
\* handle was returned under.
RoundTripUnderOneId ==
  \A w \in Wrappers :
    /\ \A j, k \in DOMAIN wlog[w] : \A s \in DOMAIN sessions : \A i \in ObjIds :
         (/\ j < k /\ Issued(w, j, s, i) /\ Forwarded(w, k, s, i)
          /\ wlog[w][k].req.eid = wlog[w][j].req.eid
          /\ ~DestroyedBetween(w, wlog[w][j].req.eid, j, k))
           => ResolvedAsIssued(w, j, k, i)
    /\ \A k \in DOMAIN wlog[w] : KeepsRegistered(w, k)

\* C12: a request without a session id is run without a session and leaves
\* the worker's sessions as they were: none created, none deleted, no
\* registry touched.
C12_GlobalCallLeavesSessions ==
  \A w \in Wrappers :
    /\ \A k \in DOMAIN wlog[w] :
         (wlog[w][k].req.eid = None /\ Done(w, k)) =>
           /\ wlog[w][k].after = wlog[w][k].before
           /\ wlog[w][k].fun = "returned" /\ ~wlog[w][k].resp.exc
    /\ (proc[w] = "alive" /\ wpc[w] = "await" /\ wlog[w] # <<>>
          /\ Last(wlog[w]).req.eid = None) => evaluators[w] = Last(wlog[w]).before

\* The worker held a session with a registered handle when it answered a
\* get_sys_path request.
C12_Witness ==
  \E w \in Wrappers : \E k \in DOMAIN wlog[w] :
    /\ wlog[w][k].req.eid = None /\ wlog[w][k].resp.val = "sys_path"
    /\ \E e \in DOMAIN wlog[w][k].before : wlog[w][k].before[e] # EmptyDict

\* The request at k carries a handle argument whose id the registry of the
\* request's session did not hold when the worker read it.
UnknownHandleArg(w, k) ==
  LET r == wlog[w][k].req IN
  /\ HasHandleArg(r) /\ Done(w, k)
  /\ ~(r.eid \in DOMAIN wlog[w][k].before /\ r.arg \in DOMAIN wlog[w][k].before[r.eid])

\* C13: a session call with a handle argument whose id is not in the
\* worker-side registry of that session (registered in another session or
\* nowhere) does not invoke the target function: it is answered with a
\* failing response, which the caller raises, and no registry entry is made
\* for the id.
C13_UnknownHandleArgFails ==
  /\ \A w \in Wrappers : \A k \in DOMAIN wlog[w] :
       UnknownHandleArg(w, k) =>
         /\ wlog[w][k].fun = "none"
         /\ wlog[w][k].resp.exc /\ wlog[w][k].resp.val = "KeyError"
         /\ wlog[w][k].req.arg \notin DOMAIN wlog[w][k].after[wlog[w][k].req.eid]
  /\ \A t \in threads :
       (/\ Dispatched(outcome[t])
        /\ UnknownHandleArg(outcome[t].w,
             CHOOSE k \in DOMAIN wlog[outcome[t].w] : wlog[outcome[t].w][k].req.tag = outcome[t].tag))
         => outcome[t].kind = "raise" /\ outcome[t].val = "KeyError"

\* A call was given a handle whose id only another session had registered,
\* and the caller has the error.
C13_Witness ==
  \E t \in threads :
    /\ Dispatched(outcome[t]) /\ outcome[t].kind = "raise"
    /\ \E k \in DOMAIN wlog[outcome[t].w] :
         /\ wlog[outcome[t].w][k].req.tag = outcome[t].tag
         /\ UnknownHandleArg(outcome[t].w, k)
         /\ \E e \in DOMAIN wlog[outcome[t].w][k].before :
              /\ e # wlog[outcome[t].w][k].req.eid
              /\ wlog[outcome[t].w][k].req.arg \in DOMAIN wlog[outcome[t].w][k].before[e]

\* The call at j is the first that gave host session f the handle of object
\* i: the instance f keeps for that id.
FirstIssued(w, j, f, i) ==
  Issued(w, j, f, i) /\ \A n \in 1..(j - 1) : ~Issued(w, n, f, i)

\* The worker deleted the session of id e on the destroy message at d.
Destroyed(w, d, e) ==
  /\ IsDestroy(wlog[w][d]) /\ wlog[w][d].req.eid = e
  /\ Done(w, d) /\ ~wlog[w][d].resp.exc

\* The request at k makes the worker resolve the handle of object i that
\* host session f holds: as an argument, or as the receiver of a method call.
Resolving(w, k, f, i) ==
  /\ Done(w, k) /\ ~IsDestroy(wlog[w][k])
  /\ wlog[w][k].req.arg = i /\ wlog[w][k].req.from = f

\* C14: once the worker has destroyed a session, a later request that
\* resolves a handle that session issued is answered with an error; the
\* handle is never resolved to an object again.
C14_DestroyedSessionHandleFails ==
  \A w \in Wrappers : \A j, d, k \in DOMAIN wlog[w] :
    \A f \in DOMAIN sessions : \A i \in ObjIds :
      (/\ j < d /\ d < k
       /\ FirstIssued(w, j, f, i)
       /\ Destroyed(w, d, wlog[w][j].req.eid)
       /\ Resolving(w, k, f, i))
        => wlog[w][k].resp.exc /\ wlog[w][k].fun # "returned"

\* The queue entry made by the teardown of host session s is still in the
\* deletion queue.
Pending(s) ==
  /\ sessions[s].enq # 0
  /\ \E n \in DOMAIN queue[sessions[s].w] : queue[sessions[s].w][n].seq = sessions[s].enq

\* Host session s, or a handle bound to it, still exists, or its id waits
\* in the deletion queue.
InUse(s) == sessions[s].alive \/ Pending(s)

\* Host session s has a call under session id i with the worker, or an entry
\* of id i in the deletion queue.
UsesId(s, i) ==
  \/ \E t \in threads : pc[t] = "call_read" /\ call[t].s = s /\ call[t].eid = i
  \/ Pending(s) /\ sessions[s].sid = i

\* C15: a session id is never in use by two host sessions of one wrapper at
\* once: while a session exists or its id waits in the deletion queue, no
\* other session of that wrapper calls or enqueues under the same id.
C15_SessionIdExclusive ==
  \A s1, s2 \in DOMAIN sessions :
    (s1 # s2 /\ sessions[s1].w = sessions[s2].w /\ InUse(s1))
      => ~UsesId(s2, sessions[s1].sid)

\* The request at k is a real call: it names a function and a session id.
RealCall(w, k) == ~IsDestroy(wlog[w][k]) /\ wlog[w][k].req.eid # None

\* The session ids with an answered real call that no answered destroy
\* message for the same id follows.
CalledSinceDestroy(w) ==
  {wlog[w][k].req.eid : k \in {n \in Answered(w) :
     /\ RealCall(w, n)
     /\ \A d \in Answered(w) :
          (d > n /\ IsDestroy(wlog[w][d])) => wlog[w][d].req.eid # wlog[w][n].req.eid}}

\* C16: the worker's session table holds exactly the session ids that got a
\* real call since the last destroy message for the id; a real call for an
\* absent id creates the session's state, a later one finds it as it was
\* left; a destroy message removes the session it names and nothing else.
C16_WorkerSessionLifecycle ==
  \A w \in Wrappers :
    /\ proc[w] = "alive" => DOMAIN evaluators[w] = CalledSinceDestroy(w)
    /\ \A k \in DOMAIN wlog[w] : k > 1 => wlog[w][k].before = wlog[w][k - 1].after
    /\ \A k \in Answered(w) :
         LET b == wlog[w][k].before
             a == wlog[w][k].after
             e == wlog[w][k].req.eid
         IN
         IF IsDestroy(wlog[w][k]) THEN a = DictDel(b, e)
         ELSE IF ~RealCall(w, k) THEN a = b
         ELSE /\ DOMAIN a = (DOMAIN b) \cup {e}
              /\ \A x \in (DOMAIN b) \ {e} : a[x] = b[x]
              /\ e \in DOMAIN b =>
                   \A i \in DOMAIN b[e] : i \in DOMAIN a[e] /\ a[e][i] = b[e][i]
              /\ e \notin DOMAIN b =>
                   \A i \in DOMAIN a[e] : a[e][i] = wlog[w][k].req.tag

\* A destroy message took one of two sessions from the table, and the one
\* left, which holds a handle, got a real call afterwards.
C16_Witness ==
  \E w \in Wrappers : \E d, k \in Answered(w) :
    /\ d < k /\ IsDestroy(wlog[w][d]) /\ RealCall(w, k)
    /\ wlog[w][d].req.eid \in DOMAIN wlog[w][d].before
    /\ wlog[w][k].req.eid \in DOMAIN wlog[w][d].after
    /\ wlog[w][d].after[wlog[w][k].req.eid] # EmptyDict
    /\ wlog[w][k].req.eid \in DOMAIN wlog[w][k].before

\* C17: end-of-input is the one event that ends the listener's loop: a
\* process that ended without a signal ended by exit(1), which it does at
\* await-request with the host gone, every request it read being answered
\* and nothing written besides; any request returns it to await-request.
C17_OnlyEndOfInputEndsLoop ==
  \A w \in Wrappers :
    /\ exitcode[w] \notin {"", "SIGTERM", "SIGKILL"} => exitcode[w] = "exit(1)"
    /\ exitcode[w] = "exit(1)" => threads = {} /\ Answered(w) = DOMAIN wlog[w]

\* The end-of-input half of C17 by itself: exit(1) happens at await-request
\* with the host gone, every request read being answered, nothing else written.
EndOfInputExits ==
  \A w \in Wrappers :
    exitcode[w] = "exit(1)" => threads = {} /\ Answered(w) = DOMAIN wlog[w]

\* C18: every destroy message the worker receives names a session that is in
\* its session table at that moment, so the deletion does not fail.
C18_DestroyNamesExistingSession ==
  \A w \in Wrappers : \A k \in DOMAIN wlog[w] :
    IsDestroy(wlog[w][k]) =>
      /\ wlog[w][k].req.eid \in DOMAIN wlog[w][k].before
      /\ ~(Done(w, k) /\ wlog[w][k].val = "KeyError")

\* C19: unless the transport fails, a run() of a session's call ends on the
\* response to its own request, written after the flush, and leaves in the
\* deletion queue no entry that was there when the call was made; it never
\* ends on the answer to a destroy message.
C19_RunDependsOnOwnCall ==
  [][\A t \in AllThreads :
       (/\ pc[t] \in {"flush_read", "call_read"} /\ pc'[t] = "idle"
        /\ call[t].s # 0 /\ outcome'[t].kind # "transport")
         => /\ pc[t] = "call_read"
            /\ ~IsDestroy(EntryOf(outcome'[t]))
            /\ \A n \in DOMAIN queue'[call[t].w] :
                 queue'[call[t].w][n].seq > call[t].issued]_vars

\* C20: every handle in a host session's registry is stored under its own id
\* and bound to that session, and a handle a call of the session returns as
\* its result is the registry's instance for its id, bound to the session.
C20_RegistryInvariant ==
  /\ \A s \in DOMAIN sessions : \A i \in DOMAIN sessions[s].handles :
       sessions[s].handles[i].id = i /\ sessions[s].handles[i].sub = s
  /\ \A t \in threads :
       LET o == outcome[t] IN
       (o.kind = "return" /\ o.s # 0 /\ Dispatched(o) /\ EntryOf(o).resp.kind = "bare")
         => /\ Len(o.hs) = 1
            /\ o.hs[1].id \in DOMAIN sessions[o.s].handles
            /\ o.hs[1] = sessions[o.s].handles[o.hs[1].id]
            /\ o.hs[1].sub = o.s

\* A call returned a handle that an earlier call of the session had
\* registered, and the session holds a second handle besides.
C20_Witness ==
  \E t \in threads :
    LET o == outcome[t] IN
    /\ o.kind = "return" /\ o.s # 0 /\ Dispatched(o) /\ EntryOf(o).resp.kind = "bare"
    /\ Len(o.hs) = 1 /\ o.hs[1].inst + 1 < nextInst
    /\ Cardinality(DOMAIN sessions[o.s].handles) = 2

====
